---------------------------- MODULE Spec2Model ----------------------------
(* The pooled HTTP client Agent of src/client.go as a state machine.        *)
(* One caller acquires an Agent (Client.Get / Client.Post / AcquireAgent),  *)
(* applies builder calls to it, and runs execution calls (Bytes, String,    *)
(* Struct).  An execution call blocks in the transport sends (DoTimeout,    *)
(* DoRedirects, Do of the HostClient), which are the only suspension        *)
(* points: every action is the code between two of them.                    *)
(*                                                                          *)
(* Optional (pointer) values are sequences: <<>> is nil, <<v>> is &v.       *)
(* Strings the code computes on (hosts, addresses, field names) are tuples  *)
(* of one-character strings.                                                *)
EXTENDS Integers, Sequences, FiniteSets, TLC

VARIABLES
    agent,          \* the Agent the caller holds (its fields), see Agent struct
    agentPool,      \* agentPool: the states of the Agents in the pool (a set);
                    \* under SpecPool the Agents in the pool, one entry for
                    \* each Put (a sequence)
    formFilePool,   \* formFilePool: the same for the FormFiles
    pc,             \* where the caller is: "idle" (holds no Agent), "build",
                    \* blocked in "DoTimeout" / "DoRedirects" / "Do",
                    \* "returned" (an execution call has just returned), "panicked"
    call,           \* the frame of the running / just ended execution call, or <<>>
    ret,            \* <<r>>: the values the execution call has just returned
    lastParse,      \* <<p>>: the last step called Parse: the Agent it was called
                    \* on (before) and the error it returned (err)
    nops,           \* builder calls applied since the Agent was acquired
    lastOp,         \* <<o>>: the last step called SendFile, SendFiles or
                    \* MultipartForm: the Agent and the pool it was called on,
                    \* its arguments and what its reads and writes returned;
                    \* or Client.Get / Client.Post: its client and arguments
    workers,        \* under SpecPool, for each concurrent worker: where it is
                    \* (pc), the Agent it holds (agent), the FormFiles it
                    \* acquired for itself (mine), the index of the loop of reset (i)
    made            \* the Agents and the FormFiles allocated so far

conc == <<workers, made>>

vars == <<agent, agentPool, formFilePool, pc, call, ret, lastParse, nops, lastOp,
          workers, made>>

----------------------------------------------------------------------------
(* Bounds of the model *)

MaxOps == 2
MaxErrs == 2
MaxFiles == 2
MaxMade == 2

----------------------------------------------------------------------------
(* Values *)

Nil == <<>>
Some(v) == <<v>>
Val(o) == o[1]

MethodGet == "GET"
MethodHead == "HEAD"
MethodPost == "POST"

strHTTP == "http"
strHTTPS == "https"
defaultUserAgent == "fiber"

MIMEApplicationJSON == "application/json"

ErrorInvalidURI == "ErrorInvalidURI"
ErrUnsupportedProtocol(scheme) == "unsupported protocol " \o scheme
ErrMarshal == "json: unsupported type"
ErrRead == "open: no such file"
ErrTimeout == "timeout"
ErrTooManyRedirects == "too many redirects detected when doing the request"
ErrConn == "connection refused"
ErrDecode == "json: cannot unmarshal"
ErrBoundary == "mime: invalid boundary character"
ErrWriteField == "write field: short write"
ErrCreateFormFile == "create form file: short write"
ErrWriteContent == "write content: short write"
ErrClose == "close: short write"

MIMEMultipartForm == "multipart/form-data"

NilWriter == "nil"
Stdout == "os.Stdout"

(* A fresh fasthttp.Request: no method, no URI, no header, no body.  The    *)
(* body is the sequence of the chunks written to it.                        *)
ZeroRequest ==
    [method |-> "", scheme |-> "", host |-> <<>>, username |-> "",
     password |-> "", header |-> <<>>, body |-> <<>>]

(* A chunk of a request body that is not a part of a multipart document. *)
Raw(data) ==
    [kind |-> "raw", boundary |-> <<>>, name |-> <<>>, filename |-> "",
     value |-> data]

(* req.Header.Method(): an unset method reads as GET. *)
Method(req) == IF req.method = "" THEN MethodGet ELSE req.method

(* req.URI().Scheme(): an unset scheme reads as http. *)
Scheme(req) == IF req.scheme = "" THEN strHTTP ELSE req.scheme

(* &Agent{req: fasthttp.AcquireRequest()}: every other field is Go's zero value. *)
NewAgent ==
    [HostClient |-> Nil, req |-> ZeroRequest, customReq |-> Nil, args |-> Nil,
     timeout |-> 0, errs |-> <<>>, formFiles |-> <<>>, debugWriter |-> NilWriter,
     maxRedirectsCount |-> 0, boundary |-> <<>>, Name |-> "",
     NoDefaultUserAgentHeader |-> FALSE, reuse |-> FALSE, parsed |-> FALSE]

(* &FormFile{} *)
NewFormFile == [Fieldname |-> <<>>, Name |-> "", Content |-> "", autoRelease |-> FALSE]

----------------------------------------------------------------------------
(* Inputs *)

(* The urls given to Client.Get / Client.Post, as SetRequestURI splits them. *)
URLs ==
    { [scheme |-> "http", host |-> <<"a">>],
      [scheme |-> "https", host |-> <<"a", ":", "8">>],
      [scheme |-> "ftp", host |-> <<"a">>],
      [scheme |-> "http", host |-> <<"[", ":", ":", "1", "]">>] }

(* The Clients: the default client and two configured ones. *)
Clients ==
    { [UserAgent |-> "", NoDefaultUserAgentHeader |-> FALSE],
      [UserAgent |-> "", NoDefaultUserAgentHeader |-> TRUE],
      [UserAgent |-> "ua", NoDefaultUserAgentHeader |-> FALSE] }

(* A FormFile the caller built and passes to FileData. *)
CallerFormFile ==
    [Fieldname |-> <<"k">>, Name |-> "own.txt", Content |-> "own", autoRelease |-> FALSE]

(* SendFile's arguments: a path, and the variadic field name. *)
Filenames == { <<"a.txt">>, <<"d", "b.txt">> }
Fieldnames == { <<>>, << <<>> >>, << <<"f", "1">> >> }

(* SendFiles' argument: file names and field names in turn. *)
FileLists ==
    { <<>>,
      << <<"a.txt">> >>,
      << <<"a.txt">>, <<"f", "1">>, <<"d", "b.txt">> >>,
      << <<"a.txt">>, <<>>, <<"d", "b.txt">>, <<"f", "1">> >> }

(* Boundary's argument: a boundary multipart.Writer accepts and one it      *)
(* rejects.                                                                 *)
Boundaries == { <<"b", "d">>, <<"b", "@">> }

(* The boundary multipart.NewWriter draws when none is set. *)
RandomBoundary == <<"7", "f", "3", "a">>

(* MultipartForm's argument: nil, or an Args with its pairs in insertion    *)
(* order.                                                                   *)
ArgSets == { Nil, Some(<< << <<"k", "1">>, "v1" >>, << <<"k", "0">>, "v0" >> >>) }

Durations == {1}
Counts == {1}

(* The requests a caller substitutes with Request(req). *)
CustomReqs ==
    { [ZeroRequest EXCEPT !.method = MethodHead, !.scheme = "https", !.host = <<"b">>],
      [ZeroRequest EXCEPT !.method = MethodPost, !.scheme = "ftp", !.host = <<"b">>] }

----------------------------------------------------------------------------
(* Pure functions *)

(* strings.Index(addr, ":") *)
IndexColon(addr) ==
    IF \E i \in 1..Len(addr) : addr[i] = ":"
    THEN (CHOOSE i \in 1..Len(addr) :
              addr[i] = ":" /\ \A j \in 1..(i - 1) : addr[j] # ":") - 1
    ELSE -1

Digit(d) == <<"0", "1", "2", "3", "4", "5", "6", "7", "8", "9">>[d + 1]

RECURSIVE Itoa(_)
(* strconv.Itoa for n >= 0 *)
Itoa(n) == IF n < 10 THEN <<Digit(n)>> ELSE Itoa(n \div 10) \o <<Digit(n % 10)>>

addMissingPort(addr, isTLS) ==
    LET n == IndexColon(addr) IN
    IF n >= 0 THEN addr
    ELSE LET port == IF isTLS THEN 443 ELSE 80
         IN  addr \o <<":">> \o Itoa(port)

(* The request Parse and Bytes work on. *)
EffectiveReq(a) == IF a.customReq # Nil THEN Val(a.customReq) ELSE a.req

(* req.URI(): the address of the request's own URI, which is never nil. *)
URI(req) == Some([scheme |-> Scheme(req), host |-> req.host])

(* The HostClient Parse builds for the URI uri (lines 133-143). *)
NewHostClient(a, uri, isTLS) ==
    LET name == IF a.Name = "" /\ ~a.NoDefaultUserAgentHeader
                THEN defaultUserAgent ELSE a.Name
    IN  [Addr |-> addMissingPort(uri.host, isTLS),
         Name |-> name,
         NoDefaultUserAgentHeader |-> a.NoDefaultUserAgentHeader,
         IsTLS |-> isTLS,
         TLSConfig |-> Nil]

(* A Resolve that builds the HostClient before it has checked the scheme. *)
Resolve_BindsFirst(a) ==
    LET uri == Val(URI(EffectiveReq(a)))
        isTLS == (uri.scheme = strHTTPS)
        a1 == [a EXCEPT !.HostClient = Some(NewHostClient(a, uri, isTLS))]
    IN  IF uri.scheme # strHTTPS /\ uri.scheme # strHTTP
        THEN [agent |-> a1, err |-> Some(ErrUnsupportedProtocol(uri.scheme))]
        ELSE [agent |-> a1, err |-> Nil]

(* Agent.Parse once it has marked the Agent parsed: the URI is resolved     *)
(* and the HostClient built.                                                *)
Resolve(a) ==
    LET req == EffectiveReq(a)
        uri == URI(req)
        scheme == Val(uri).scheme
        isTLS == (scheme = strHTTPS)
    IN
    IF uri = Nil
    THEN [agent |-> a, err |-> Some(ErrorInvalidURI)]
    ELSE IF scheme # strHTTPS /\ scheme # strHTTP
    THEN [agent |-> a, err |-> Some(ErrUnsupportedProtocol(scheme))]
    ELSE [agent |-> [a EXCEPT !.HostClient = Some(NewHostClient(a, Val(uri), isTLS))],
          err |-> Nil]

(* A Parse that does not look at the parsed flag. *)
Parse_NoMemo(a) == Resolve([a EXCEPT !.parsed = TRUE])

(* Agent.Parse: the Agent after the call and the error returned (Nil: no error). *)
Parse(a) ==
    IF a.parsed THEN [agent |-> a, err |-> Nil]
    ELSE Resolve([a EXCEPT !.parsed = TRUE])

(* ReleaseFormFile(ff): the FormFile as it is put into formFilePool. *)
ReleaseFormFile(ff) ==
    [ff EXCEPT !.Fieldname = <<>>, !.Name = "", !.Content = "", !.autoRelease = FALSE]

(* The loop of Agent.reset over a.formFiles (lines 605-610): each          *)
(* descriptor of the list as the loop leaves it, and whether the loop has   *)
(* handed it to ReleaseFormFile.                                            *)
(* A loop that releases every descriptor of the list. *)
ResetFiles_All(a) ==
    [i \in 1..Len(a.formFiles) |->
        [ff |-> ReleaseFormFile(a.formFiles[i]), put |-> TRUE]]

ResetFiles(a) ==
    [i \in 1..Len(a.formFiles) |->
        IF a.formFiles[i].autoRelease
        THEN [ff |-> ReleaseFormFile(a.formFiles[i]), put |-> TRUE]
        ELSE [ff |-> a.formFiles[i], put |-> FALSE]]

(* The descriptors reset has put into formFilePool, in order. *)
PutFiles(a) ==
    LET put == SelectSeq(ResetFiles(a), LAMBDA x : x.put)
    IN  [i \in 1..Len(put) |-> put[i].ff]

(* A reset that leaves the list of the files as the loop found it. *)
ResetList_Keeps(a) == [j \in 1..Len(a.formFiles) |-> ResetFiles(a)[j].ff]

(* The list of the files of the Agent after reset: the loop has set every   *)
(* entry to nil and the list is cut to length 0 (lines 609, 611).           *)
ResetList(a) == <<>>

(* The caller's request as reset leaves it: reset drops the reference       *)
(* (line 594) and calls nothing on the request.                             *)
(* A reset that resets the request the caller substituted. *)
ResetCustom_Resets(a) == IF a.customReq = Nil THEN Nil ELSE Some(ZeroRequest)

ResetCustom(a) == a.customReq

(* A reset that leaves the parsed flag as it is. *)
reset_KeepsParsed(a) ==
    [agent |->
        [a EXCEPT !.HostClient = Nil, !.req = ZeroRequest, !.customReq = Nil,
                  !.timeout = 0, !.args = Nil, !.errs = <<>>,
                  !.debugWriter = NilWriter, !.reuse = FALSE,
                  !.maxRedirectsCount = 0, !.boundary = <<>>, !.Name = "",
                  !.NoDefaultUserAgentHeader = FALSE, !.formFiles = ResetList(a)],
     files |-> PutFiles(a),
     after |-> ResetFiles(a),
     custom |-> ResetCustom(a)]

(* Agent.reset: the Agent after it, the FormFiles it hands to               *)
(* ReleaseFormFile, in order, and the objects of the caller it referred to  *)
(* as it leaves them.                                                       *)
reset(a) ==
    [agent |->
        [a EXCEPT !.HostClient = Nil,
                  !.req = ZeroRequest,
                  !.customReq = Nil,
                  !.timeout = 0,
                  !.args = Nil,
                  !.errs = <<>>,
                  !.debugWriter = NilWriter,
                  !.reuse = FALSE,
                  !.parsed = FALSE,
                  !.maxRedirectsCount = 0,
                  !.boundary = <<>>,
                  !.Name = "",
                  !.NoDefaultUserAgentHeader = FALSE,
                  !.formFiles = ResetList(a)],
     files |-> PutFiles(a),
     after |-> ResetFiles(a),
     custom |-> ResetCustom(a)]

(* ReleaseAgent(a): a.reset(), then agentPool.Put(a). *)
ReleaseAgent(a) ==
    LET r == reset(a)
    IN  [agent |-> r.agent, files |-> r.files,
         after |-> r.after, custom |-> r.custom, put |-> TRUE,
         events |-> <<"reset", "agentPool.Put">>]

(* A release that puts the Agent into the pool whatever the reuse flag is. *)
release_IgnoresReuse(a) == ReleaseAgent(a)

(* Agent.release: what the deferred call at the top of Bytes does. *)
release(a) ==
    IF ~a.reuse
    THEN ReleaseAgent(a)
    ELSE [agent |-> [a EXCEPT !.errs = <<>>], files |-> <<>>,
          after |-> [i \in 1..Len(a.formFiles) |-> [ff |-> a.formFiles[i], put |-> FALSE]],
          custom |-> a.customReq, put |-> FALSE,
          events |-> <<"errs[:0]">>]

(* The send Bytes invokes first, and the one it goes on to when a send has  *)
(* returned no error ("return": Bytes returns).                             *)
(* A redirect condition that does not look at the method. *)
FollowsRedirects_AnyMethod(a, req) == a.maxRedirectsCount > 0

(* The condition under which Bytes calls DoRedirects (line 543). *)
FollowsRedirects(a, req) ==
    a.maxRedirectsCount > 0
    /\ (Method(req) = MethodGet \/ Method(req) = MethodHead)

FirstSend(a, req) ==
    IF a.timeout > 0 THEN "DoTimeout"
    ELSE IF FollowsRedirects(a, req) THEN "DoRedirects"
    ELSE "Do"

NextSend(a, req, send) ==
    IF send = "DoTimeout"
    THEN IF FollowsRedirects(a, req) THEN "DoRedirects" ELSE "Do"
    ELSE IF send = "DoRedirects" THEN "Do"
    ELSE "return"

(* resp.StatusCode(): an unset status code reads as 200. *)
StatusCode(resp) == IF resp.status = 0 THEN 200 ELSE resp.status

(* json.Unmarshal(body, v) succeeds on a JSON document only. *)
JSONValid(body) == body = "{}"

(* A closure that reads the status code whatever the error list holds. *)
Deferred_CodeAlways(a, c, errs) ==
    [code |-> StatusCode(c.resp),
     body |-> c.resp.body,
     events |->
        (IF a.debugWriter # NilWriter THEN <<"printDebugInfo">> ELSE <<>>)
        \o <<"StatusCode">>
        \o (IF c.releaseResp THEN <<"copy Body", "ReleaseResponse">> ELSE <<"Body">>)]

(* A closure that writes to the debug sink after it has read the response. *)
Deferred_DebugLast(a, c, errs) ==
    [code |-> IF Len(errs) = 0 THEN StatusCode(c.resp) ELSE 0,
     body |-> c.resp.body,
     events |->
        (IF Len(errs) = 0 THEN <<"StatusCode">> ELSE <<>>)
        \o (IF c.releaseResp THEN <<"copy Body", "ReleaseResponse">> ELSE <<"Body">>)
        \o (IF a.debugWriter # NilWriter THEN <<"printDebugInfo">> ELSE <<>>)]

(* A closure that releases the response whoever owns it. *)
Deferred_ReleasesAlways(a, c, errs) ==
    [code |-> IF Len(errs) = 0 THEN StatusCode(c.resp) ELSE 0,
     body |-> c.resp.body,
     events |->
        (IF a.debugWriter # NilWriter THEN <<"printDebugInfo">> ELSE <<>>)
        \o (IF Len(errs) = 0 THEN <<"StatusCode">> ELSE <<>>)
        \o <<"copy Body", "ReleaseResponse">>]

(* The closure Bytes defers once it has a response: the named results it    *)
(* leaves and what it does, in order.                                       *)
Deferred(a, c, errs) ==
    [code |-> IF Len(errs) = 0 THEN StatusCode(c.resp) ELSE 0,
     body |-> c.resp.body,
     events |->
        (IF a.debugWriter # NilWriter THEN <<"printDebugInfo">> ELSE <<>>)
        \o (IF Len(errs) = 0 THEN <<"StatusCode">> ELSE <<>>)
        \o (IF c.releaseResp THEN <<"copy Body", "ReleaseResponse">> ELSE <<"Body">>)]

(* What String and Struct do with the values Bytes returned. *)
Returned(kind, code, body, errs) ==
    [kind |-> kind, code |-> code, body |-> body,
     errs |-> IF kind = "Struct" /\ ~JSONValid(body)
              THEN Append(errs, ErrDecode) ELSE errs]

(* filepath.Base of a path given as its elements. *)
Base(filename) == filename[Len(filename)]

(* ioutil.ReadFile(filename) when it succeeds. *)
FileContent(filename) == "content of " \o Base(filename)

(* Agent.SendFile after a successful read, on the FormFile ff0 that         *)
(* AcquireFormFile returned.                                                *)
AttachFile(a, ff0, filename, fieldname) ==
    LET ff == [ff0 EXCEPT
                 !.Fieldname = IF Len(fieldname) > 0 /\ fieldname[1] # <<>>
                               THEN fieldname[1]
                               ELSE <<"f", "i", "l", "e">> \o Itoa(Len(a.formFiles) + 1),
                 !.Name = Base(filename),
                 !.Content = @ \o FileContent(filename),
                 !.autoRelease = TRUE]
    IN  [a EXCEPT !.formFiles = Append(@, ff)]

(* What one call of SendFile meets: whether ioutil.ReadFile succeeds, and   *)
(* the FormFile formFilePool.Get() returns (Nil: none, a new one is made).  *)
Loads(pool) ==
    {[ok |-> FALSE, got |-> Nil]}
    \cup {[ok |-> TRUE, got |-> g] : g \in {Nil} \cup {Some(ff) : ff \in pool}}

(* A SendFile that takes a FormFile from the pool before it reads the file. *)
SendFileOn_AcquiresFirst(st, filename, fieldname, load) ==
    IF ~load.ok
    THEN [agent |-> [st.agent EXCEPT !.errs = Append(@, ErrRead)],
          pool |-> IF st.pool = {} THEN st.pool
                   ELSE st.pool \ {CHOOSE ff \in st.pool : TRUE}]
    ELSE IF load.got = Nil
    THEN [agent |-> AttachFile(st.agent, NewFormFile, filename, fieldname),
          pool |-> st.pool]
    ELSE [agent |-> AttachFile(st.agent, Val(load.got), filename, fieldname),
          pool |-> st.pool \ {Val(load.got)}]

(* A SendFile that starts the error list anew when the read fails. *)
SendFileOn_ForgetsErrs(st, filename, fieldname, load) ==
    IF ~load.ok
    THEN [agent |-> [st.agent EXCEPT !.errs = <<ErrRead>>],
          pool |-> st.pool]
    ELSE IF load.got = Nil
    THEN [agent |-> AttachFile(st.agent, NewFormFile, filename, fieldname),
          pool |-> st.pool]
    ELSE [agent |-> AttachFile(st.agent, Val(load.got), filename, fieldname),
          pool |-> st.pool \ {Val(load.got)}]

(* Agent.SendFile on the Agent and the pool of st. *)
SendFileOn(st, filename, fieldname, load) ==
    IF ~load.ok
    THEN [agent |-> [st.agent EXCEPT !.errs = Append(@, ErrRead)],
          pool |-> st.pool]
    ELSE IF load.got = Nil
    THEN [agent |-> AttachFile(st.agent, NewFormFile, filename, fieldname),
          pool |-> st.pool]
    ELSE [agent |-> AttachFile(st.agent, Val(load.got), filename, fieldname),
          pool |-> st.pool \ {Val(load.got)}]

(* The bounds of the model on the lists of an Agent. *)
WithinBounds(a) == Len(a.errs) <= MaxErrs /\ Len(a.formFiles) <= MaxFiles

----------------------------------------------------------------------------
(* sync.Pool, as the set of the states of the objects it holds: Put adds   *)
(* the object, Get takes one out or finds none (the caller then allocates). *)

PoolPut(pool, x) == pool \cup {x}

PutAll(pool, xs) == pool \cup {xs[i] : i \in 1..Len(xs)}

(* The concurrent callers of SpecPool, and a caller that holds nothing. *)
Workers == {"w1", "w2"}

IdleWorker == [pc |-> "idle", agent |-> Nil, mine |-> {}, i |-> 0]

----------------------------------------------------------------------------

Init ==
    /\ agent = NewAgent
    /\ agentPool = {}
    /\ formFilePool = {}
    /\ pc = "idle"
    /\ call = Nil
    /\ ret = Nil
    /\ lastParse = Nil
    /\ nops = 0
    /\ lastOp = Nil
    /\ workers = [w \in Workers |-> IdleWorker]
    /\ made = [agents |-> 0, files |-> 0]

(* AcquireAgent: the caller takes an Agent from the pool or a new one. *)
AcquireAgent ==
    /\ pc = "idle"
    /\ \/ /\ agent' = NewAgent
          /\ UNCHANGED agentPool
       \/ \E a \in agentPool :
            /\ agent' = a
            /\ agentPool' = agentPool \ {a}
    /\ pc' = "build"
    /\ nops' = 0
    /\ lastParse' = Nil
    /\ UNCHANGED conc
    /\ lastOp' = Nil
    /\ UNCHANGED <<formFilePool, call, ret>>

(* Client.createAgent(method, url) on an Agent a that AcquireAgent returned. *)
createAgentSet(a, c, method, url) ==
    [a EXCEPT !.req.method = method,
              !.req.scheme = url.scheme,
              !.req.host = url.host,
              !.Name = c.UserAgent,
              !.NoDefaultUserAgentHeader = c.NoDefaultUserAgentHeader]

(* A createAgent that drops the error Parse returns. *)
createAgent_DropsErr(a, c, method, url) ==
    Parse(createAgentSet(a, c, method, url)).agent

createAgent(a, c, method, url) ==
    LET p == Parse(createAgentSet(a, c, method, url))
    IN  IF p.err # Nil
        THEN [p.agent EXCEPT !.errs = Append(p.agent.errs, Val(p.err))]
        ELSE p.agent

ClientCreate(method) ==
    /\ pc = "idle"
    /\ \E c \in Clients, url \in URLs :
         \E a \in {NewAgent} \cup agentPool :
            /\ agent' = createAgent(a, c, method, url)
            /\ agentPool' \in {agentPool, agentPool \ {a}}
            /\ a \in agentPool \/ agentPool' = agentPool
            /\ lastParse' = Some([before |-> createAgentSet(a, c, method, url),
                                  err |-> Parse(createAgentSet(a, c, method, url)).err])
            /\ lastOp' = Some([op |-> "createAgent", c |-> c, method |-> method,
                               url |-> url])
    /\ pc' = "build"
    /\ nops' = 0
    /\ UNCHANGED conc
    /\ UNCHANGED <<formFilePool, call, ret>>

(* Client.Get(url) *)
Get == ClientCreate(MethodGet)

(* Client.Post(url) *)
Post == ClientCreate(MethodPost)

(* A builder call: the Agent is held, no execution call is running. *)
BuilderStep(a1) ==
    /\ pc = "build"
    /\ nops < MaxOps
    /\ agent' = a1
    /\ nops' = nops + 1
    /\ lastParse' = Nil
    /\ UNCHANGED <<agentPool, pc, call, ret>>

(* A builder call that takes no FormFile from the pool. *)
Builder(a1) ==
    BuilderStep(a1) /\ lastOp' = Nil /\ UNCHANGED formFilePool /\ UNCHANGED conc

(* a.Parse() called by the caller *)
CallParse ==
    /\ pc = "build"
    /\ nops < MaxOps
    /\ agent' = Parse(agent).agent
    /\ lastParse' = Some([before |-> agent, err |-> Parse(agent).err])
    /\ nops' = nops + 1
    /\ UNCHANGED conc
    /\ lastOp' = Nil
    /\ UNCHANGED <<agentPool, formFilePool, pc, call, ret>>

(* ReleaseAgent(a) called by the caller instead of an execution call. *)
CallReleaseAgent ==
    /\ pc = "build"
    /\ LET rel == ReleaseAgent(agent) IN
       /\ agent' = rel.agent
       /\ agentPool' = PoolPut(agentPool, rel.agent)
       /\ formFilePool' = PutAll(formFilePool, rel.files)
    /\ pc' = "idle"
    /\ lastParse' = Nil
    /\ UNCHANGED conc
    /\ lastOp' = Nil
    /\ nops' = 0
    /\ UNCHANGED <<call, ret>>

----------------------------------------------------------------------------
(* Builder calls.  Each returns the Agent it was called on. *)

(* req.Header.Set(k, v): one value for the key, the last one set. *)
HeaderSet(h, k, v) ==
    Append(SelectSeq(h, LAMBDA kv : kv[1] # k), <<k, v>>)

Set == \E v \in {"1", "2"} :
    Builder([agent EXCEPT !.req.header = HeaderSet(@, "X-K", v)])

Host == Builder([agent EXCEPT !.req.host = <<"c">>])

BasicAuth == Builder([agent EXCEPT !.req.username = "u", !.req.password = "p"])

BodyString == Builder([agent EXCEPT !.req.body = <<Raw("b")>>])

Request == \E r \in CustomReqs : Builder([agent EXCEPT !.customReq = Some(r)])

(* Agent.JSON(v): json.Marshal(v) succeeds or fails. *)
JSON ==
    \/ Builder([agent EXCEPT
           !.req.header = HeaderSet(@, "Content-Type", MIMEApplicationJSON),
           !.req.body = <<Raw("{}")>>])
    \/ /\ Len(agent.errs) < MaxErrs
       /\ Builder([agent EXCEPT
              !.req.header = HeaderSet(@, "Content-Type", MIMEApplicationJSON),
              !.errs = Append(@, ErrMarshal)])

(* Agent.FileData(ff) with a descriptor the caller owns. *)
FileData ==
    /\ Len(agent.formFiles) < MaxFiles
    /\ Builder([agent EXCEPT !.formFiles = Append(@, CallerFormFile)])

(* Agent.SendFile(filename, fieldname...): ioutil.ReadFile fails or succeeds. *)
SendFile ==
    /\ pc = "build"
    /\ nops < MaxOps
    /\ \E filename \in Filenames, fieldname \in Fieldnames :
         \E load \in Loads(formFilePool) :
            LET st == SendFileOn([agent |-> agent, pool |-> formFilePool],
                                 filename, fieldname, load)
            IN  /\ WithinBounds(st.agent)
                /\ BuilderStep(st.agent)
                /\ formFilePool' = st.pool
                /\ UNCHANGED conc
                /\ lastOp' = Some([op |-> "SendFile", before |-> agent,
                                   pool |-> formFilePool, filename |-> filename,
                                   fieldname |-> fieldname, load |-> load])

Boundary == \E boundary \in Boundaries :
    Builder([agent EXCEPT !.boundary = boundary])

(* A SendFiles that leaves out the file name an odd list ends with. *)
SendFilesCalls_Even(list) ==
    [j \in 1..(Len(list) \div 2) |->
        [filename |-> list[2 * j - 1], fieldname |-> << list[2 * j] >>]]

(* The SendFile calls Agent.SendFiles makes on its arguments, in order:     *)
(* the list is padded with "" when its length is odd, and the loop takes    *)
(* i = 0, 2, ... below the length before the padding.                       *)
SendFilesCalls(list) ==
    LET pairs == Len(list)
        padded == IF pairs % 2 = 1 THEN Append(list, <<>>) ELSE list
    IN  [j \in 1..((pairs + 1) \div 2) |->
            [filename |-> padded[2 * j - 1], fieldname |-> << padded[2 * j] >>]]

RECURSIVE SendFilesOn(_, _, _)
(* The calls of SendFiles applied in order, the j-th one meeting loads[j]. *)
SendFilesOn(st, calls, loads) ==
    IF calls = <<>> THEN st
    ELSE SendFilesOn(SendFileOn(st, Head(calls).filename, Head(calls).fieldname,
                                Head(loads)),
                     Tail(calls), Tail(loads))

RECURSIVE LoadsFit(_, _)
(* Each FormFile a load takes is in the pool when it is taken. *)
LoadsFit(pool, loads) ==
    IF loads = <<>> THEN TRUE
    ELSE /\ IF Head(loads).got = Nil THEN TRUE ELSE Val(Head(loads).got) \in pool
         /\ LoadsFit(pool \ {Head(loads).got[i] : i \in 1..Len(Head(loads).got)},
                     Tail(loads))

(* Agent.SendFiles(filenamesAndFieldnames...) *)
SendFiles ==
    /\ pc = "build"
    /\ nops < MaxOps
    /\ \E list \in FileLists :
         \E loads \in [1..Len(SendFilesCalls(list)) -> Loads(formFilePool)] :
            LET st == SendFilesOn([agent |-> agent, pool |-> formFilePool],
                                  SendFilesCalls(list), loads)
            IN  /\ LoadsFit(formFilePool, loads)
                /\ WithinBounds(st.agent)
                /\ BuilderStep(st.agent)
                /\ formFilePool' = st.pool
                /\ UNCHANGED conc
                /\ lastOp' = Some([op |-> "SendFiles", before |-> agent,
                                   pool |-> formFilePool, list |-> list,
                                   calls |-> SendFilesCalls(list), loads |-> loads])

----------------------------------------------------------------------------
(* Multipart form *)

Letters ==
    {"a", "b", "c", "d", "e", "f", "g", "h", "i", "j", "k", "l", "m",
     "n", "o", "p", "q", "r", "s", "t", "u", "v", "w", "x", "y", "z",
     "A", "B", "C", "D", "E", "F", "G", "H", "I", "J", "K", "L", "M",
     "N", "O", "P", "Q", "R", "S", "T", "U", "V", "W", "X", "Y", "Z"}

Digits == {"0", "1", "2", "3", "4", "5", "6", "7", "8", "9"}

(* multipart.Writer.SetBoundary accepts 1 to 70 characters of RFC 2046's    *)
(* bchars, the last one not a space.                                        *)
ValidBoundary(b) ==
    /\ Len(b) >= 1
    /\ Len(b) <= 70
    /\ \A i \in 1..Len(b) :
          \/ b[i] \in Letters \cup Digits
          \/ b[i] \in {"'", "(", ")", "+", "_", ",", "-", ".", "/", ":", "=", "?"}
          \/ b[i] = " " /\ i # Len(b)

RECURSIVE Str(_)
(* The string of a tuple of characters. *)
Str(t) == IF t = <<>> THEN "" ELSE Head(t) \o Str(Tail(t))

RECURSIVE Concat(_)
Concat(ss) == IF ss = <<>> THEN <<>> ELSE Head(ss) \o Concat(Tail(ss))

(* What the writes of one MultipartForm call return: TRUE is no error.      *)
(* fields[i]: mw.WriteField of the i-th pair; creates[j], writes[j]:        *)
(* mw.CreateFormFile and w.Write of the j-th FormFile; close: mw.Close.     *)
(* A write that is not made is listed as TRUE.                              *)
Outcomes(a, args) ==
    LET k == IF args = Nil THEN 0 ELSE Len(Val(args))
        f == Len(a.formFiles)
    IN  { out \in [fields : [1..k -> BOOLEAN], creates : [1..f -> BOOLEAN],
                   writes : [1..f -> BOOLEAN], close : BOOLEAN] :
            /\ \A j \in 1..f : ~out.creates[j] => out.writes[j]
            /\ (a.boundary # <<>> /\ ~ValidBoundary(a.boundary)) =>
                  /\ \A i \in 1..k : out.fields[i]
                  /\ \A j \in 1..f : out.creates[j]
                  /\ out.close }

(* The items MultipartForm goes through, in order: the pairs of args        *)
(* (VisitAll, lines 411-417), then the FormFiles (lines 419-429).           *)
MultipartItems(a, args) ==
    [i \in 1..(IF args = Nil THEN 0 ELSE Len(Val(args))) |->
        [kind |-> "field", at |-> i]]
    \o [j \in 1..Len(a.formFiles) |-> [kind |-> "file", at |-> j]]

(* A loop over the items that gives up at the first write that fails. *)
MultipartWritten_StopsAtFailure(a, args, out) ==
    LET b == IF a.boundary # <<>> THEN a.boundary ELSE RandomBoundary
        items == MultipartItems(a, args)
        Ok(x) == IF x.kind = "field" THEN out.fields[x.at]
                 ELSE out.creates[x.at] /\ out.writes[x.at]
        bad == {n \in 1..Len(items) : ~Ok(items[n])}
        last == IF bad = {} THEN Len(items)
                ELSE CHOOSE n \in bad : \A m \in bad : n <= m
        Part(x) ==
            IF x.kind = "field"
            THEN [kind |-> "field", boundary |-> b, name |-> Val(args)[x.at][1],
                  filename |-> "", value |-> Val(args)[x.at][2]]
            ELSE [kind |-> "file", boundary |-> b,
                  name |-> a.formFiles[x.at].Fieldname,
                  filename |-> a.formFiles[x.at].Name,
                  value |-> IF out.writes[x.at] THEN a.formFiles[x.at].Content ELSE ""]
        Written(x) ==
            IF x.kind = "field"
            THEN IF out.fields[x.at] THEN <<Part(x)>> ELSE <<>>
            ELSE IF out.creates[x.at] THEN <<Part(x)>> ELSE <<>>
        Failed(x) ==
            IF x.kind = "field"
            THEN IF out.fields[x.at] THEN <<>> ELSE <<ErrWriteField>>
            ELSE IF ~out.creates[x.at] THEN <<ErrCreateFormFile>>
            ELSE IF ~out.writes[x.at] THEN <<ErrWriteContent>>
            ELSE <<>>
    IN  [agent |->
            [a EXCEPT
               !.req.header = HeaderSet(@, "Content-Type",
                                        MIMEMultipartForm \o "; boundary=" \o Str(b)),
               !.req.body = @ \o Concat([n \in 1..last |-> Written(items[n])]),
               !.errs = @ \o Concat([n \in 1..last |-> Failed(items[n])])],
          attempted |-> SubSeq(items, 1, last)]

(* Agent.MultipartForm(args) once the boundary is settled (lines 409-435),  *)
(* its writes returning out: the Agent after the call and the items it has  *)
(* attempted to write.                                                      *)
MultipartWritten(a, args, out) ==
    LET b == IF a.boundary # <<>> THEN a.boundary ELSE RandomBoundary
        items == MultipartItems(a, args)
        Part(x) ==
            IF x.kind = "field"
            THEN [kind |-> "field", boundary |-> b, name |-> Val(args)[x.at][1],
                  filename |-> "", value |-> Val(args)[x.at][2]]
            ELSE [kind |-> "file", boundary |-> b,
                  name |-> a.formFiles[x.at].Fieldname,
                  filename |-> a.formFiles[x.at].Name,
                  value |-> IF out.writes[x.at] THEN a.formFiles[x.at].Content ELSE ""]
        Written(x) ==
            IF x.kind = "field"
            THEN IF out.fields[x.at] THEN <<Part(x)>> ELSE <<>>
            ELSE IF out.creates[x.at] THEN <<Part(x)>> ELSE <<>>
        Failed(x) ==
            IF x.kind = "field"
            THEN IF out.fields[x.at] THEN <<>> ELSE <<ErrWriteField>>
            ELSE IF ~out.creates[x.at] THEN <<ErrCreateFormFile>>
            ELSE IF ~out.writes[x.at] THEN <<ErrWriteContent>>
            ELSE <<>>
        closing == [kind |-> "close", boundary |-> b, name |-> <<>>,
                    filename |-> "", value |-> ""]
    IN  [agent |->
            [a EXCEPT
               !.req.header = HeaderSet(@, "Content-Type",
                                        MIMEMultipartForm \o "; boundary=" \o Str(b)),
               !.req.body = @ \o Concat([n \in 1..Len(items) |-> Written(items[n])])
                              \o (IF out.close THEN <<closing>> ELSE <<>>),
               !.errs = @ \o Concat([n \in 1..Len(items) |-> Failed(items[n])])
                          \o (IF out.close THEN <<>> ELSE <<ErrClose>>)],
          attempted |-> items]

(* A MultipartForm that declares the boundary in the header before it has   *)
(* set it on the writer.                                                    *)
MultipartFormOn_HeaderFirst(a, args, out) ==
    IF a.boundary # <<>> /\ ~ValidBoundary(a.boundary)
    THEN [agent |->
            [a EXCEPT
               !.req.header = HeaderSet(@, "Content-Type",
                                        MIMEMultipartForm \o "; boundary="
                                            \o Str(a.boundary)),
               !.errs = Append(@, ErrBoundary)],
          attempted |-> <<>>]
    ELSE MultipartWritten(a, args, out)

(* Agent.MultipartForm(args) on the Agent a, its writes returning out:      *)
(* SetBoundary rejects the Agent's boundary and the call returns (lines     *)
(* 403-408), or the call goes on to write.                                  *)
MultipartFormOn(a, args, out) ==
    IF a.boundary # <<>> /\ ~ValidBoundary(a.boundary)
    THEN [agent |-> [a EXCEPT !.errs = Append(@, ErrBoundary)],
          attempted |-> <<>>]
    ELSE MultipartWritten(a, args, out)

(* Agent.MultipartForm(args) *)
MultipartForm ==
    /\ pc = "build"
    /\ nops < MaxOps
    /\ \E args \in ArgSets :
         \E out \in Outcomes(agent, args) :
            LET r == MultipartFormOn(agent, args, out)
            IN  /\ WithinBounds(r.agent)
                /\ BuilderStep(r.agent)
                /\ UNCHANGED formFilePool
                /\ UNCHANGED conc
                /\ lastOp' = Some([op |-> "MultipartForm", before |-> agent,
                                   args |-> args, out |-> out,
                                   attempted |-> r.attempted])

(* Agent.Debug(w...): os.Stdout unless a writer is given. *)
Debug == \E w \in {Nil, Some("w")} :
    Builder([agent EXCEPT !.debugWriter = IF Len(w) > 0 THEN w[1] ELSE Stdout])

Timeout == \E d \in Durations : Builder([agent EXCEPT !.timeout = d])

MaxRedirectsCount == \E n \in Counts :
    Builder([agent EXCEPT !.maxRedirectsCount = n])

Reuse == Builder([agent EXCEPT !.reuse = TRUE])

(* A setter that dereferences a.HostClient: a nil HostClient panics. *)
HostClientSetter(hc1) ==
    /\ pc = "build"
    /\ nops < MaxOps
    /\ IF agent.HostClient = Nil
       THEN /\ pc' = "panicked"
            /\ UNCHANGED agent
       ELSE /\ agent' = [agent EXCEPT !.HostClient = Some(hc1)]
            /\ UNCHANGED pc
    /\ nops' = nops + 1
    /\ lastParse' = Nil
    /\ UNCHANGED conc
    /\ lastOp' = Nil
    /\ UNCHANGED <<agentPool, formFilePool, call, ret>>

InsecureSkipVerify ==
    HostClientSetter(
        IF Val(agent.HostClient).TLSConfig = Nil
        THEN [Val(agent.HostClient) EXCEPT
                 !.TLSConfig = Some([InsecureSkipVerify |-> TRUE])]
        ELSE [Val(agent.HostClient) EXCEPT
                 !.TLSConfig = Some([Val(@) EXCEPT !.InsecureSkipVerify = TRUE])])

TLSConfig == \E config \in {Nil, Some([InsecureSkipVerify |-> FALSE])} :
    HostClientSetter([Val(agent.HostClient) EXCEPT !.TLSConfig = config])

----------------------------------------------------------------------------
(* Execution calls *)

Responses == { [status |-> 200, body |-> "{}"], [status |-> 302, body |-> "moved"] }
ZeroResponse == [status |-> 0, body |-> ""]

(* The error a send returns when it fails. *)
SendError(send) ==
    IF send = "DoTimeout" THEN ErrTimeout
    ELSE IF send = "DoRedirects" THEN ErrTooManyRedirects
    ELSE ErrConn

(* An end of the call in which a.release() runs before the closure that    *)
(* reads the response.                                                      *)
EndCall_ReleasesFirst(c, events, r) ==
    LET rel == release(agent) IN
    /\ agent' = rel.agent
    /\ agentPool' = IF rel.put THEN PoolPut(agentPool, rel.agent) ELSE agentPool
    /\ formFilePool' = PutAll(formFilePool, rel.files)
    /\ call' = Some([c EXCEPT !.trace = @ \o rel.events \o events,
                              !.released = rel.put,
                              !.files = rel.files,
                              !.after = rel.after,
                              !.custom = rel.custom])
    /\ ret' = r
    /\ pc' = IF r = Nil THEN "panicked" ELSE "returned"
    /\ nops' = IF rel.put THEN 0 ELSE nops
    /\ lastParse' = Nil
    /\ UNCHANGED conc
    /\ lastOp' = Nil

(* The deferred a.release() runs and the call ends: it returns r, or the    *)
(* panic goes on to the caller when r is Nil.                               *)
EndCall(c, events, r) ==
    LET rel == release(agent) IN
    /\ agent' = rel.agent
    /\ agentPool' = IF rel.put THEN PoolPut(agentPool, rel.agent) ELSE agentPool
    /\ formFilePool' = PutAll(formFilePool, rel.files)
    /\ call' = Some([c EXCEPT !.trace = @ \o events \o rel.events,
                              !.released = rel.put,
                              !.files = rel.files,
                              !.after = rel.after,
                              !.custom = rel.custom])
    /\ ret' = r
    /\ pc' = IF r = Nil THEN "panicked" ELSE "returned"
    /\ nops' = IF rel.put THEN 0 ELSE nops
    /\ lastParse' = Nil
    /\ UNCHANGED conc
    /\ lastOp' = Nil

(* Bytes, or String / Struct calling it, up to the first send. *)
Enter(kind, customResp) ==
    /\ pc = "build"
    /\ LET c == [kind |-> kind, entry |-> agent, req |-> EffectiveReq(agent),
                 resp |-> ZeroResponse, releaseResp |-> ~customResp,
                 errs |-> agent.errs, sendErr |-> Nil, code |-> 0, body |-> "",
                 trace |-> <<>>, released |-> FALSE,
                 files |-> <<>>, after |-> <<>>, custom |-> Nil]
           c1 == [c EXCEPT !.trace =
                     IF customResp THEN <<>> ELSE <<"AcquireResponse">>]
       IN
       IF Len(c.errs) > 0
       THEN EndCall(c, <<>>, Some(Returned(kind, 0, "", c.errs)))
       ELSE IF agent.HostClient = Nil
       THEN EndCall(c1, <<"nil HostClient">> \o Deferred(agent, c1, c1.errs).events, Nil)
       ELSE /\ pc' = FirstSend(agent, c1.req)
            /\ call' = Some([c1 EXCEPT !.trace = Append(@, FirstSend(agent, c1.req))])
            /\ lastParse' = Nil
            /\ UNCHANGED conc
            /\ lastOp' = Nil
            /\ UNCHANGED <<agent, agentPool, formFilePool, nops, ret>>

Bytes == \E customResp \in BOOLEAN : Enter("Bytes", customResp)

String == \E customResp \in BOOLEAN : Enter("String", customResp)

Struct == \E customResp \in BOOLEAN : Enter("Struct", customResp)

(* The send the call is blocked in returns an error. *)
SendFails(send) ==
    /\ pc = send
    /\ LET c0 == [Val(call) EXCEPT !.errs = Append(@, SendError(send)),
                                   !.sendErr = Some(SendError(send)),
                                   !.trace = Append(@, "error")]
           d == Deferred(agent, c0, c0.errs)
           c == [c0 EXCEPT !.code = d.code, !.body = d.body]
       IN  EndCall(c, d.events, Some(Returned(c.kind, d.code, d.body, c.errs)))

(* The send the call is blocked in returns a response. *)
SendSucceeds(send) ==
    /\ pc = send
    /\ \E resp \in Responses :
         LET c == [Val(call) EXCEPT !.resp = resp]
             next == NextSend(agent, c.req, send)
             d == Deferred(agent, c, c.errs)
         IN  IF next = "return"
             THEN EndCall([c EXCEPT !.code = d.code, !.body = d.body], d.events,
                          Some(Returned(c.kind, d.code, d.body, c.errs)))
             ELSE /\ pc' = next
                  /\ call' = Some([c EXCEPT !.trace = Append(@, next)])
                  /\ UNCHANGED <<agent, agentPool, formFilePool, nops, ret, lastParse, lastOp, conc>>

DoTimeoutReturns == SendFails("DoTimeout") \/ SendSucceeds("DoTimeout")

DoRedirectsReturns == SendFails("DoRedirects") \/ SendSucceeds("DoRedirects")

DoReturns == SendFails("Do") \/ SendSucceeds("Do")

(* The caller goes on after the execution call: it holds the Agent still    *)
(* when the call has not released it.                                       *)
Resume ==
    /\ pc = "returned"
    /\ pc' = IF Val(call).released THEN "idle" ELSE "build"
    /\ call' = Nil /\ ret' = Nil
    /\ UNCHANGED <<agent, agentPool, formFilePool, lastParse, nops, lastOp, conc>>

Next ==
    \/ AcquireAgent
    \/ Get
    \/ Post
    \/ CallParse
    \/ CallReleaseAgent
    \/ Set \/ Host \/ BasicAuth \/ BodyString \/ Request \/ JSON
    \/ Boundary \/ Debug \/ Timeout
    \/ MaxRedirectsCount \/ Reuse \/ InsecureSkipVerify \/ TLSConfig
    \/ Bytes \/ String \/ Struct
    \/ DoTimeoutReturns \/ DoRedirectsReturns \/ DoReturns
    \/ Resume

Spec == Init /\ [][Next]_vars

(* The calls that build a form on an Agent from AcquireAgent, its           *)
(* execution by Bytes and its release.                                      *)
NextForm ==
    \/ AcquireAgent
    \/ CallParse
    \/ CallReleaseAgent
    \/ BodyString \/ JSON \/ FileData \/ SendFile \/ SendFiles \/ Boundary
    \/ MultipartForm
    \/ Bytes
    \/ DoReturns
    \/ Resume

SpecForm == Init /\ [][NextForm]_vars

----------------------------------------------------------------------------
(* Several callers on the shared pools.  Every Agent and every FormFile is  *)
(* an object with an identity (id); a pool is the sequence of the objects   *)
(* put into it and not taken out again.  Get and Put of sync.Pool are       *)
(* atomic; what a caller does on an object only it refers to is local and   *)
(* is folded into its next step on a pool.                                  *)

(* The object number n whose fields are those of rec. *)
WithId(rec, n) ==
    [k \in DOMAIN rec \cup {"id"} |-> IF k = "id" THEN n ELSE rec[k]]

(* The pool without its k-th object. *)
Take(pool, k) == SubSeq(pool, 1, k - 1) \o SubSeq(pool, k + 1, Len(pool))

(* What Get on the pool can return: one of its objects, which leaves the    *)
(* pool, or nothing, when another object can still be allocated.            *)
Gets(pool, n) ==
    {[got |-> Some(pool[k]), pool |-> Take(pool, k)] : k \in 1..Len(pool)}
    \cup (IF n < MaxMade THEN {[got |-> Nil, pool |-> pool]} ELSE {})

InitPool ==
    /\ agent = NewAgent
    /\ agentPool = <<>>
    /\ formFilePool = <<>>
    /\ pc = "idle"
    /\ call = Nil
    /\ ret = Nil
    /\ lastParse = Nil
    /\ nops = 0
    /\ lastOp = Nil
    /\ workers = [w \in Workers |-> IdleWorker]
    /\ made = [agents |-> 0, files |-> 0]

(* The variables of the single caller, which SpecPool leaves alone. *)
single == <<agent, pc, call, ret, lastParse, nops, lastOp>>

(* AcquireAgent() called by worker w. *)
PoolAcquireAgent(w) ==
    /\ workers[w].pc = "idle"
    /\ \E g \in Gets(agentPool, made.agents) :
         /\ agentPool' = g.pool
         /\ IF g.got = Nil
            THEN /\ made' = [made EXCEPT !.agents = @ + 1]
                 /\ workers' = [workers EXCEPT
                        ![w].agent = Some(WithId(NewAgent, made.agents + 1)),
                        ![w].pc = "build"]
            ELSE /\ made' = made
                 /\ workers' = [workers EXCEPT ![w].agent = g.got, ![w].pc = "build"]
    /\ UNCHANGED <<formFilePool, single>>

(* AcquireFormFile() called by worker w for a descriptor of its own. *)
PoolAcquireFormFile(w) ==
    /\ workers[w].pc \in {"idle", "build"}
    /\ workers[w].mine = {}
    /\ \E g \in Gets(formFilePool, made.files) :
         /\ formFilePool' = g.pool
         /\ IF g.got = Nil
            THEN /\ made' = [made EXCEPT !.files = @ + 1]
                 /\ workers' = [workers EXCEPT
                        ![w].mine = {WithId(NewFormFile, made.files + 1)}]
            ELSE /\ made' = made
                 /\ workers' = [workers EXCEPT ![w].mine = {Val(g.got)}]
    /\ UNCHANGED <<agentPool, single>>

(* a.FileData(ff) called by worker w with a descriptor of its own. *)
PoolFileData(w) ==
    /\ workers[w].pc = "build"
    /\ Len(Val(workers[w].agent).formFiles) < MaxFiles
    /\ \E ff \in workers[w].mine :
         workers' = [workers EXCEPT
            ![w].agent = Some([Val(@) EXCEPT !.formFiles = Append(@, ff)])]
    /\ UNCHANGED <<agentPool, formFilePool, made, single>>

(* a.SendFile(filename) called by worker w, the read succeeding. *)
PoolSendFile(w) ==
    /\ workers[w].pc = "build"
    /\ Len(Val(workers[w].agent).formFiles) < MaxFiles
    /\ \E g \in Gets(formFilePool, made.files) :
         LET ff0 == IF g.got = Nil THEN WithId(NewFormFile, made.files + 1)
                    ELSE Val(g.got)
         IN  /\ formFilePool' = g.pool
             /\ made' = IF g.got = Nil THEN [made EXCEPT !.files = @ + 1] ELSE made
             /\ workers' = [workers EXCEPT
                    ![w].agent = Some(AttachFile(Val(@), ff0, <<"a.txt">>, <<>>))]
    /\ UNCHANGED <<agentPool, single>>

(* a.Reuse() called by worker w. *)
PoolReuse(w) ==
    /\ workers[w].pc = "build"
    /\ ~Val(workers[w].agent).reuse
    /\ workers' = [workers EXCEPT ![w].agent = Some([Val(@) EXCEPT !.reuse = TRUE])]
    /\ UNCHANGED <<agentPool, formFilePool, made, single>>

(* An execution call of worker w comes to its deferred release: it enters   *)
(* ReleaseAgent, or with reuse set leaves the Agent with the worker.        *)
PoolExecute(w) ==
    /\ workers[w].pc = "build"
    /\ LET rel == release(Val(workers[w].agent)) IN
       IF rel.put
       THEN workers' = [workers EXCEPT ![w].pc = "reset", ![w].i = 1]
       ELSE workers' = [workers EXCEPT ![w].agent = Some(rel.agent)]
    /\ UNCHANGED <<agentPool, formFilePool, made, single>>

(* ReleaseAgent(a) called by worker w on the Agent it holds. *)
PoolReleaseAgent(w) ==
    /\ workers[w].pc = "build"
    /\ workers' = [workers EXCEPT ![w].pc = "reset", ![w].i = 1]
    /\ UNCHANGED <<agentPool, formFilePool, made, single>>

(* One turn of the loop of reset in worker w (lines 605-610): the           *)
(* descriptor goes to ReleaseFormFile, which puts it into the pool, or is   *)
(* left alone.                                                              *)
PoolResetStep(w) ==
    /\ workers[w].pc = "reset"
    /\ workers[w].i <= Len(Val(workers[w].agent).formFiles)
    /\ LET d == ResetFiles(Val(workers[w].agent))[workers[w].i] IN
       formFilePool' = IF d.put THEN Append(formFilePool, d.ff) ELSE formFilePool
    /\ workers' = [workers EXCEPT ![w].i = @ + 1]
    /\ UNCHANGED <<agentPool, made, single>>

(* The loop of reset is over in worker w: the list is cut and               *)
(* agentPool.Put(a) ends ReleaseAgent.                                      *)
PoolPutAgent(w) ==
    /\ workers[w].pc = "reset"
    /\ workers[w].i > Len(Val(workers[w].agent).formFiles)
    /\ LET a == Val(workers[w].agent) IN
       agentPool' = Append(agentPool, reset(a).agent)
    /\ workers' = [workers EXCEPT ![w].pc = "idle", ![w].agent = Nil, ![w].i = 0]
    /\ UNCHANGED <<formFilePool, made, single>>

(* ReleaseFormFile(ff) called by worker w on a descriptor of its own that   *)
(* the Agent it holds does not refer to.                                    *)
PoolReleaseFormFile(w) ==
    /\ workers[w].pc \in {"idle", "build"}
    /\ \E ff \in workers[w].mine :
         /\ IF workers[w].agent = Nil THEN TRUE
            ELSE \A j \in 1..Len(Val(workers[w].agent).formFiles) :
                    Val(workers[w].agent).formFiles[j].id # ff.id
         /\ formFilePool' = Append(formFilePool, ReleaseFormFile(ff))
         /\ workers' = [workers EXCEPT ![w].mine = @ \ {ff}]
    /\ UNCHANGED <<agentPool, made, single>>

NextPool ==
    \E w \in Workers :
        \/ PoolAcquireAgent(w)
        \/ PoolAcquireFormFile(w)
        \/ PoolFileData(w)
        \/ PoolSendFile(w)
        \/ PoolReuse(w)
        \/ PoolExecute(w)
        \/ PoolReleaseAgent(w)
        \/ PoolResetStep(w)
        \/ PoolPutAgent(w)
        \/ PoolReleaseFormFile(w)

SpecPool == InitPool /\ [][NextPool]_vars

----------------------------------------------------------------------------
(* Properties *)

SendNames == {"DoTimeout", "DoRedirects", "Do"}

(* The transport sends an execution call has invoked so far, in order. *)
Sends(c) == SelectSeq(c.trace, LAMBDA e : e \in SendNames)

Count(seq, e) == Cardinality({i \in 1..Len(seq) : seq[i] = e})

(* An execution call has just returned to the caller. *)
CallReturned == pc = "returned"

(* An execution call has just ended: it returned, or it panicked. *)
CallEnded == pc = "returned" \/ (pc = "panicked" /\ call # Nil)

GetOrHead(req) == Method(req) = MethodGet \/ Method(req) = MethodHead

(* C1: an execution call on an Agent whose error list is empty invokes      *)
(* exactly one transport send: DoTimeout if timeout > 0, else DoRedirects   *)
(* if maxRedirectsCount > 0 and the method is GET or HEAD, else Do.         *)
C1_ExactlyOneSend ==
    (CallReturned /\ Val(call).entry.errs = <<>>) =>
        LET c == Val(call) IN
        Sends(c) = << IF c.entry.timeout > 0 THEN "DoTimeout"
                      ELSE IF c.entry.maxRedirectsCount > 0 /\ GetOrHead(c.req)
                           THEN "DoRedirects"
                           ELSE "Do" >>

(* C2: an execution call (Bytes, String or Struct) on an Agent whose error  *)
(* list is not empty invokes no send and returns that list unchanged, with  *)
(* status code 0 and an empty payload.                                      *)
C2_FailFast ==
    (CallReturned /\ Val(call).entry.errs # <<>>) =>
        /\ Sends(Val(call)) = <<>>
        /\ Val(ret).errs = Val(call).entry.errs
        /\ Val(ret).code = 0
        /\ Val(ret).body = ""

(* C3: an execution call whose request method is neither GET nor HEAD never *)
(* invokes the redirect-following send, whatever the transport answers.     *)
C3_RedirectsOnlyGetHead ==
    (call # Nil /\ ~GetOrHead(Val(call).req)) =>
        /\ Count(Val(call).trace, "DoRedirects") = 0
        /\ pc # "DoRedirects"

(* A POST call with maxRedirectsCount > 0 got a 302 answer and returned. *)
C3_Witness ==
    /\ CallReturned
    /\ Method(Val(call).req) = MethodPost
    /\ Val(call).entry.maxRedirectsCount > 0
    /\ Val(call).entry.errs = <<>>
    /\ Val(call).resp.status = 302
    /\ Len(Sends(Val(call))) > 0

(* C4: with timeout > 0 and maxRedirectsCount > 0 on a GET or HEAD request, *)
(* an execution call never invokes the redirect-following send.             *)
C4_TimeoutPrecedence ==
    (/\ call # Nil
     /\ Val(call).entry.timeout > 0
     /\ Val(call).entry.maxRedirectsCount > 0
     /\ GetOrHead(Val(call).req)) =>
        Count(Val(call).trace, "DoRedirects") = 0

(* C5: with timeout > 0 an execution call never waits on a send that the    *)
(* timeout does not bound (DoRedirects, Do).                                *)
C5_NoUntimedWait ==
    (pc \in {"DoRedirects", "Do"}) => Val(call).entry.timeout <= 0

BadScheme(req) == Scheme(req) # strHTTP /\ Scheme(req) # strHTTPS

C7_ParseIdempotent ==
    lastParse # Nil =>
        LET b == Val(lastParse).before IN
        /\ (~b.parsed /\ ~BadScheme(EffectiveReq(b))) =>
              /\ Val(lastParse).err = Nil
              /\ agent.HostClient # Nil
              /\ Val(agent.HostClient).IsTLS = (Scheme(EffectiveReq(b)) = strHTTPS)
        /\ (b.parsed /\ b.HostClient # Nil) =>
              /\ Val(lastParse).err = Nil
              /\ agent.HostClient = b.HostClient

(* Parse has just been repeated on a bound Agent whose host was changed     *)
(* after the binding.                                                       *)
C7_Witness ==
    /\ lastParse # Nil
    /\ Val(lastParse).before.parsed
    /\ Val(lastParse).before.HostClient # Nil
    /\ Val(lastParse).before.req.host = <<"c">>
    /\ Val(agent.HostClient).Addr # addMissingPort(<<"c">>, Val(agent.HostClient).IsTLS)

(* C8: no builder setter raises: the caller never panics outside an         *)
(* execution call.                                                          *)
C8_SettersTotal == ~(pc = "panicked" /\ call = Nil)

(* C9: when an execution call has ended, an Agent without the reuse flag    *)
(* has been reset and put into the pool exactly once; an Agent with the     *)
(* reuse flag has not been put into the pool, its error list is empty and   *)
(* every other field is as it was when the call began.                      *)
C9_ReleaseOrReuse ==
    CallEnded =>
        LET c == Val(call) IN
        IF ~c.entry.reuse
        THEN /\ agent = NewAgent
             /\ Count(c.trace, "agentPool.Put") = 1
             /\ Count(c.trace, "reset") = 1
             /\ c.released
             /\ agent \in agentPool
        ELSE /\ agent = [c.entry EXCEPT !.errs = <<>>]
             /\ Count(c.trace, "agentPool.Put") = 0
             /\ Count(c.trace, "reset") = 0
             /\ ~c.released

(* A call on an Agent with the reuse flag and a timeout has returned a      *)
(* send's error, and the Agent is as before with an empty error list.       *)
C9_Witness ==
    /\ CallReturned
    /\ Val(call).entry.reuse
    /\ Val(call).entry.timeout > 0
    /\ Val(ret).errs # <<>>
    /\ agent.errs = <<>>
    /\ agent.HostClient # Nil

AllBefore(trace, es1, es2) ==
    \A i, j \in 1..Len(trace) :
        (trace[i] \in es1 /\ trace[j] \in es2) => i < j

ReadEvents == {"StatusCode", "copy Body", "Body", "ReleaseResponse"}

(* C11: when an execution call has reset the Agent, exactly the FormFiles   *)
(* of its list with autoRelease set (those SendFile made) have been put     *)
(* into formFilePool, once each; the FormFiles the caller gave to FileData  *)
(* have not been put and are as they were; the Agent's list is empty.       *)
C11_OwnFilesReleased ==
    (CallEnded /\ Val(call).released) =>
        LET c == Val(call)
            fs == c.entry.formFiles
        IN
        /\ Len(c.after) = Len(fs)
        /\ \A i \in 1..Len(fs) :
              IF fs[i].autoRelease
              THEN c.after[i].put /\ c.after[i].ff \in formFilePool
              ELSE ~c.after[i].put /\ c.after[i].ff = fs[i]
        /\ Len(c.files) = Cardinality({i \in 1..Len(fs) : fs[i].autoRelease})
        /\ \A i \in 1..Len(c.files) : c.files[i] \in formFilePool
        /\ agent.formFiles = <<>>

(* A call has released an Agent that held a FormFile of the caller and one  *)
(* of its own.                                                              *)
C11_Witness ==
    /\ CallEnded
    /\ Val(call).released
    /\ Len(Val(call).entry.formFiles) = 2
    /\ \E i, j \in 1..2 :
          /\ Val(call).entry.formFiles[i].autoRelease
          /\ Val(call).entry.formFiles[j] = CallerFormFile
    /\ Len(Val(call).files) = 1

(* C13: Struct returns the status code and the bytes Bytes returned; it     *)
(* adds the decode error only after a transport round trip that succeeded,  *)
(* as the last element; when a send failed the list it returns holds the    *)
(* send's error only.                                                       *)
C13_StructErrors ==
    (CallReturned /\ Val(call).kind = "Struct") =>
        LET c == Val(call)
            r == Val(ret)
        IN
        /\ r.code = c.code
        /\ r.body = c.body
        /\ r.errs # c.errs =>
              /\ c.errs = <<>>
              /\ Sends(c) # <<>>
              /\ r.errs = Append(c.errs, ErrDecode)
        /\ c.sendErr # Nil => r.errs = <<Val(c.sendErr)>>

(* C14: when a send of an execution call has returned an error, Bytes has   *)
(* appended that error and nothing else to its error list, has invoked no   *)
(* send after it and returns status code 0; a status code other than 0 is   *)
(* returned only with an empty error list of Bytes.                         *)
C14_SendErrorTerminal ==
    CallEnded =>
        LET c == Val(call) IN
        /\ c.sendErr # Nil =>
              /\ c.errs = Append(c.entry.errs, Val(c.sendErr))
              /\ Val(c.sendErr) = SendError(Sends(c)[Len(Sends(c))])
              /\ Count(c.trace, "error") = 1
              /\ AllBefore(c.trace, SendNames, {"error"})
              /\ c.code = 0
              /\ ret # Nil => Val(ret).code = 0
        /\ (ret # Nil /\ Val(ret).code # 0) => c.errs = <<>>

(* A call with a timeout got an answer from DoTimeout and an error from the *)
(* send it went on to.                                                      *)
C14_Witness ==
    /\ CallReturned
    /\ Val(call).sendErr # Nil
    /\ Len(Sends(Val(call))) = 2
    /\ Val(call).resp.status = 302
    /\ Val(ret).code = 0

(* C15: an execution call on an Agent with a debug writer that got past the *)
(* fail-fast check has written to the writer exactly once, after its sends  *)
(* and before it read the status code and the body and released the         *)
(* response, whether the sends succeeded or not.                            *)
C15_DebugOnce ==
    (/\ CallEnded
     /\ Val(call).entry.debugWriter # NilWriter
     /\ Val(call).entry.errs = <<>>) =>
        LET c == Val(call) IN
        /\ Count(c.trace, "printDebugInfo") = 1
        /\ AllBefore(c.trace, SendNames \cup {"error"}, {"printDebugInfo"})
        /\ AllBefore(c.trace, {"printDebugInfo"}, ReadEvents)
        /\ \E i \in 1..Len(c.trace) : c.trace[i] \in {"copy Body", "Body"}

(* A call on an Agent with a debug writer has returned a send's error. *)
C15_Witness ==
    /\ CallReturned
    /\ Val(call).entry.debugWriter # NilWriter
    /\ Val(call).sendErr # Nil
    /\ Count(Val(call).trace, "printDebugInfo") = 1

(* C16: an execution call on an Agent with a substituted request sends that *)
(* request; when the call has ended the caller's request is as it was, and  *)
(* an Agent that was reset holds no substituted request and its own         *)
(* request, reset.                                                          *)
C16_CustomRequestKept ==
    (call # Nil /\ Val(call).entry.customReq # Nil) =>
        LET c == Val(call) IN
        /\ c.req = Val(c.entry.customReq)
        /\ CallEnded =>
              /\ c.custom = c.entry.customReq
              /\ c.released =>
                    /\ agent.customReq = Nil
                    /\ agent.req = ZeroRequest

(* A call has sent a substituted request that differs from the Agent's own  *)
(* and has released the Agent.                                              *)
C16_Witness ==
    /\ CallReturned
    /\ Val(call).released
    /\ Val(call).entry.customReq # Nil
    /\ Val(call).entry.req # ZeroRequest
    /\ Val(call).req # Val(call).entry.req
    /\ Sends(Val(call)) # <<>>
    /\ Val(call).custom # Nil

(* C17: an execution call given a response never acquires or releases one   *)
(* and returns that response's body; a call given none that got past the    *)
(* fail-fast check has acquired one response, copied its body and then      *)
(* released it, once each; a fail-fast call acquires and releases nothing.  *)
C17_ResponseOwnership ==
    CallEnded =>
        LET c == Val(call) IN
        IF c.entry.errs # <<>> \/ ~c.releaseResp
        THEN /\ Count(c.trace, "AcquireResponse") = 0
             /\ Count(c.trace, "ReleaseResponse") = 0
             /\ Count(c.trace, "copy Body") = 0
             /\ Count(c.trace, "Body") = IF c.entry.errs # <<>> THEN 0 ELSE 1
        ELSE /\ Count(c.trace, "AcquireResponse") = 1
             /\ c.trace[1] = "AcquireResponse"
             /\ Count(c.trace, "copy Body") = 1
             /\ Count(c.trace, "ReleaseResponse") = 1
             /\ Count(c.trace, "Body") = 0
             /\ AllBefore(c.trace, {"copy Body"}, {"ReleaseResponse"})

(* A call given no response has returned the body of a 200 answer. *)
C17_Witness ==
    /\ CallReturned
    /\ Val(call).releaseResp
    /\ Val(call).resp.status = 200
    /\ Val(ret).body = "{}"
    /\ Count(Val(call).trace, "ReleaseResponse") = 1

(* "file" followed by the decimal digit of n, for n below 10. *)
FileN(n) == <<"f", "i", "l", "e", <<"1", "2", "3", "4", "5", "6", "7", "8", "9">>[n]>>

(* The field name a SendFile call given fieldname... asks for on an Agent   *)
(* with n files attached.                                                   *)
AskedName(fieldname, n) ==
    IF fieldname # <<>> /\ fieldname[1] # <<>> THEN fieldname[1] ELSE FileN(n + 1)

IsPrefix(s, t) == Len(s) <= Len(t) /\ SubSeq(t, 1, Len(s)) = s

(* C18: a SendFile whose read succeeded has appended one FormFile to the    *)
(* Agent's list, with autoRelease set and as field name the caller's        *)
(* non-empty one or else "file" and the number of files attached before     *)
(* plus one, and has left the error list as it was; one whose read failed   *)
(* has appended one error, has left the file list as it was and has taken   *)
(* no FormFile from the pool.  Nothing else of the Agent has changed.       *)
C18_SendFile ==
    (lastOp # Nil /\ Val(lastOp).op = "SendFile") =>
        LET o == Val(lastOp)
            b == o.before
            n == Len(b.formFiles)
        IN
        /\ agent = [b EXCEPT !.formFiles = agent.formFiles, !.errs = agent.errs]
        /\ IF o.load.ok
           THEN /\ Len(agent.formFiles) = n + 1
                /\ IsPrefix(b.formFiles, agent.formFiles)
                /\ agent.formFiles[n + 1].autoRelease
                /\ agent.formFiles[n + 1].Fieldname = AskedName(o.fieldname, n)
                /\ agent.errs = b.errs
           ELSE /\ Len(agent.errs) = Len(b.errs) + 1
                /\ IsPrefix(b.errs, agent.errs)
                /\ agent.formFiles = b.formFiles
                /\ formFilePool = o.pool

(* SendFile with an empty field name has attached a second file, named      *)
(* "file2", taking its FormFile from the pool.                              *)
C18_Witness ==
    /\ lastOp # Nil
    /\ Val(lastOp).op = "SendFile"
    /\ Val(lastOp).load.ok
    /\ Val(lastOp).load.got # Nil
    /\ Val(lastOp).fieldname = << <<>> >>
    /\ Len(Val(lastOp).before.formFiles) = 1
    /\ agent.formFiles[2].Fieldname = <<"f", "i", "l", "e", "2">>

(* C19: SendFiles given n strings has made the smallest number m of         *)
(* SendFile calls with 2m >= n, in order, the j-th with the (2j-1)-th       *)
(* string as file name and the 2j-th as field name, an empty one when there *)
(* is no 2j-th; when every read succeeded it has attached m files, each     *)
(* with the field name its call asked for.  On an Agent without files       *)
(* ("a.txt", "f1", "b.txt") attaches two, the second one named "file2".     *)
C19_SendFilesPairs ==
    (lastOp # Nil /\ Val(lastOp).op = "SendFiles") =>
        LET o == Val(lastOp)
            b == o.before
            n == Len(o.list)
            m == Len(o.calls)
            k == Len(b.formFiles)
            allRead == \A j \in 1..m : o.loads[j].ok
        IN
        /\ 2 * m >= n
        /\ 2 * (m - 1) < n
        /\ \A j \in 1..m :
              /\ o.calls[j].filename = o.list[2 * j - 1]
              /\ o.calls[j].fieldname = << IF 2 * j <= n THEN o.list[2 * j] ELSE <<>> >>
        /\ Len(agent.formFiles) = k + Cardinality({j \in 1..m : o.loads[j].ok})
        /\ Len(agent.errs) = Len(b.errs) + Cardinality({j \in 1..m : ~o.loads[j].ok})
        /\ allRead =>
              \A j \in 1..m :
                  /\ agent.formFiles[k + j].Name = Base(o.list[2 * j - 1])
                  /\ agent.formFiles[k + j].Fieldname =
                        AskedName(o.calls[j].fieldname, k + j - 1)
                  /\ agent.formFiles[k + j].autoRelease
        /\ (/\ allRead
            /\ k = 0
            /\ o.list = << <<"a.txt">>, <<"f", "1">>, <<"d", "b.txt">> >>) =>
              /\ Len(agent.formFiles) = 2
              /\ agent.formFiles[1].Fieldname = <<"f", "1">>
              /\ agent.formFiles[2].Fieldname = <<"f", "i", "l", "e", "2">>

(* SendFiles("a.txt", "f1", "d/b.txt") has read both files for an Agent     *)
(* that had none.                                                           *)
C19_Witness ==
    /\ lastOp # Nil
    /\ Val(lastOp).op = "SendFiles"
    /\ Val(lastOp).list = << <<"a.txt">>, <<"f", "1">>, <<"d", "b.txt">> >>
    /\ Val(lastOp).before.formFiles = <<>>
    /\ \A j \in 1..Len(Val(lastOp).loads) : Val(lastOp).loads[j].ok
    /\ Len(agent.formFiles) = 2
    /\ agent.formFiles[2].Name = "b.txt"

(* Every write of the MultipartForm call that was the last step returned    *)
(* no error, and so did SetBoundary when the call made it.                  *)
NoWriteFailure ==
    LET o == Val(lastOp) IN
    /\ \A i \in DOMAIN o.out.fields : o.out.fields[i]
    /\ \A j \in DOMAIN o.out.creates : o.out.creates[j] /\ o.out.writes[j]
    /\ o.out.close
    /\ o.before.boundary # <<>> => ValidBoundary(o.before.boundary)

(* The value of the Content-Type header of the request, or "". *)
ContentType(req) ==
    IF \E i \in 1..Len(req.header) : req.header[i][1] = "Content-Type"
    THEN req.header[CHOOSE i \in 1..Len(req.header) :
                        req.header[i][1] = "Content-Type"][2]
    ELSE ""

(* C20: a MultipartForm call with k pairs and f attached files whose writes *)
(* all succeeded leaves a request body of exactly k + f parts: one field    *)
(* per pair in insertion order with its key and value, then one file part   *)
(* per FormFile in attachment order with its field name, file name and      *)
(* content, and after them the closing delimiter; every part carries the    *)
(* boundary the Content-Type header declares, which is the Agent's boundary *)
(* when it has one.                                                         *)
C20_BodyParts ==
    (lastOp # Nil /\ Val(lastOp).op = "MultipartForm" /\ NoWriteFailure) =>
        LET o == Val(lastOp)
            b == o.before
            pairs == IF o.args = Nil THEN <<>> ELSE Val(o.args)
            k == Len(pairs)
            f == Len(b.formFiles)
            body == agent.req.body
        IN
        /\ Len(body) = k + f + 1
        /\ \A i \in 1..k :
              /\ body[i].kind = "field"
              /\ body[i].name = pairs[i][1]
              /\ body[i].value = pairs[i][2]
        /\ \A j \in 1..f :
              /\ body[k + j].kind = "file"
              /\ body[k + j].name = b.formFiles[j].Fieldname
              /\ body[k + j].filename = b.formFiles[j].Name
        /\ body[k + f + 1].kind = "close"
        /\ \A i \in 1..(k + f + 1) :
              ContentType(agent.req) =
                  "multipart/form-data; boundary=" \o Str(body[i].boundary)
        /\ b.boundary # <<>> => body[1].boundary = b.boundary

(* What the call has written is such a document: the body is what it was    *)
(* before the call followed by the k + f parts and the closing delimiter,   *)
(* all with the boundary of the header; the error list is as it was.        *)
MultipartAppended ==
    (lastOp # Nil /\ Val(lastOp).op = "MultipartForm" /\ NoWriteFailure) =>
        LET o == Val(lastOp)
            b == o.before
            pairs == IF o.args = Nil THEN <<>> ELSE Val(o.args)
            k == Len(pairs)
            f == Len(b.formFiles)
            old == Len(b.req.body)
            doc == SubSeq(agent.req.body, old + 1, Len(agent.req.body))
        IN
        /\ IsPrefix(b.req.body, agent.req.body)
        /\ Len(doc) = k + f + 1
        /\ \A i \in 1..k :
              /\ doc[i].kind = "field"
              /\ doc[i].name = pairs[i][1]
              /\ doc[i].value = pairs[i][2]
        /\ \A j \in 1..f :
              /\ doc[k + j].kind = "file"
              /\ doc[k + j].name = b.formFiles[j].Fieldname
              /\ doc[k + j].filename = b.formFiles[j].Name
              /\ doc[k + j].value = b.formFiles[j].Content
        /\ doc[k + f + 1].kind = "close"
        /\ \A i \in 1..(k + f + 1) :
              ContentType(agent.req) =
                  "multipart/form-data; boundary=" \o Str(doc[i].boundary)
        /\ b.boundary # <<>> => doc[1].boundary = b.boundary
        /\ agent.errs = b.errs
        /\ Len(o.attempted) = k + f

(* The Agents worker w holds, by identity. *)
HeldAgents(w) ==
    IF workers[w].agent = Nil THEN {} ELSE {Val(workers[w].agent).id}

(* The descriptors worker w holds, by identity: its own, and those the      *)
(* Agent it holds refers to; the loop of reset has dropped the entries it   *)
(* has passed.                                                              *)
HeldFiles(w) ==
    {ff.id : ff \in workers[w].mine}
    \cup (IF workers[w].agent = Nil THEN {}
          ELSE LET fs == Val(workers[w].agent).formFiles
                   from == IF workers[w].pc = "reset" THEN workers[w].i ELSE 1
               IN  {fs[j].id : j \in from..Len(fs)})

NoTwice(pool) ==
    \A j, k \in 1..Len(pool) : j # k => pool[j].id # pool[k].id

(* C12: with several workers acquiring, building, executing and releasing,  *)
(* no Agent and no FormFile is held by two workers at the same time and no  *)
(* object is in its pool more than once.                                    *)
C12_ExclusiveOwnership ==
    /\ \A w1, w2 \in Workers :
          w1 # w2 => /\ HeldAgents(w1) \cap HeldAgents(w2) = {}
                     /\ HeldFiles(w1) \cap HeldFiles(w2) = {}
    /\ NoTwice(agentPool)
    /\ NoTwice(formFilePool)

(* One worker is still in the loop of reset, past a descriptor it has put   *)
(* into the pool, and the other worker holds an Agent taken from the pool   *)
(* to which SendFile has attached that descriptor.                          *)
C12_Witness ==
    \E w1, w2 \in Workers :
        /\ w1 # w2
        /\ workers[w1].pc = "reset"
        /\ workers[w1].i = 2
        /\ workers[w2].pc = "build"
        /\ made.agents = 2
        /\ Val(workers[w2].agent).id = 1
        /\ Len(Val(workers[w2].agent).formFiles) = 1
        /\ Val(workers[w2].agent).formFiles[1].autoRelease
        /\ Val(workers[w2].agent).formFiles[1].id =
              Val(workers[w1].agent).formFiles[1].id

(* The explicit boundary of the Agent is one SetBoundary rejects. *)
BadBoundary(a) == a.boundary # <<>> /\ ~ValidBoundary(a.boundary)

(* C21: a MultipartForm call on an Agent whose explicit boundary cannot be  *)
(* set appends one error and changes nothing else of the Agent: no part is  *)
(* written, no item attempted, the Content-Type header is as it was, and    *)
(* the caller holds the Agent as before.  The execution call that meets the *)
(* error invokes no send and returns it.                                    *)
C21_BoundaryFailure ==
    /\ (lastOp # Nil /\ Val(lastOp).op = "MultipartForm"
            /\ BadBoundary(Val(lastOp).before)) =>
          LET b == Val(lastOp).before IN
          /\ agent = [b EXCEPT !.errs = agent.errs]
          /\ Len(agent.errs) = Len(b.errs) + 1
          /\ IsPrefix(b.errs, agent.errs)
          /\ agent.req.body = b.req.body
          /\ ContentType(agent.req) = ContentType(b.req)
          /\ Val(lastOp).attempted = <<>>
          /\ pc = "build"
    /\ (CallEnded /\ \E i \in 1..Len(Val(call).entry.errs) :
                        Val(call).entry.errs[i] = ErrBoundary) =>
          /\ Sends(Val(call)) = <<>>
          /\ ret # Nil
          /\ IsPrefix(Val(call).entry.errs, Val(ret).errs)
          /\ Val(ret).code = 0

(* Bytes has returned the boundary error of a MultipartForm call that was   *)
(* given two pairs on an Agent with the boundary "b@".                      *)
C21_Witness ==
    /\ CallReturned
    /\ Val(call).entry.boundary = <<"b", "@">>
    /\ Val(call).entry.errs = <<ErrBoundary>>
    /\ Val(call).entry.req.body = <<>>
    /\ ContentType(Val(call).entry.req) = ""
    /\ Val(ret).errs = <<ErrBoundary>>

(* The number of the e in the sequence seq of Booleans. *)
Falses(seq) == Cardinality({i \in DOMAIN seq : ~seq[i]})

(* C22: in a MultipartForm call that has set its boundary, a failed write   *)
(* does not stop the rest: every pair and every FormFile is attempted, in   *)
(* order, each failed field write, file-part creation, content write or     *)
(* close appends one error, and every item whose writes succeed has its     *)
(* part in the body.                                                        *)
C22_FailuresContinue ==
    (lastOp # Nil /\ Val(lastOp).op = "MultipartForm"
        /\ ~BadBoundary(Val(lastOp).before)) =>
        LET o == Val(lastOp)
            b == o.before
            pairs == IF o.args = Nil THEN <<>> ELSE Val(o.args)
            k == Len(pairs)
            f == Len(b.formFiles)
            doc == SubSeq(agent.req.body, Len(b.req.body) + 1, Len(agent.req.body))
            new == SubSeq(agent.errs, Len(b.errs) + 1, Len(agent.errs))
        IN
        /\ Len(o.attempted) = k + f
        /\ \A i \in 1..k : o.attempted[i] = [kind |-> "field", at |-> i]
        /\ \A j \in 1..f : o.attempted[k + j] = [kind |-> "file", at |-> j]
        /\ IsPrefix(b.errs, agent.errs)
        /\ Len(new) = Falses(o.out.fields) + Falses(o.out.creates)
                        + Falses(o.out.writes) + (IF o.out.close THEN 0 ELSE 1)
        /\ Count(new, ErrWriteField) = Falses(o.out.fields)
        /\ Count(new, ErrCreateFormFile) = Falses(o.out.creates)
        /\ Count(new, ErrWriteContent) = Falses(o.out.writes)
        /\ Count(new, ErrClose) = (IF o.out.close THEN 0 ELSE 1)
        /\ \A i \in 1..k :
              o.out.fields[i] =>
                  \E n \in 1..Len(doc) :
                      doc[n].kind = "field" /\ doc[n].name = pairs[i][1]
        /\ \A j \in 1..f :
              o.out.creates[j] =>
                  \E n \in 1..Len(doc) :
                      doc[n].kind = "file" /\ doc[n].name = b.formFiles[j].Fieldname
        /\ Cardinality({n \in 1..Len(doc) : doc[n].kind \in {"field", "file"}})
              = k + f - Falses(o.out.fields) - Falses(o.out.creates)

(* The write of the first of two fields failed, the second field was        *)
(* written, and the content of the file that follows could not be written.  *)
C22_Witness ==
    /\ lastOp # Nil
    /\ Val(lastOp).op = "MultipartForm"
    /\ Val(lastOp).args # Nil
    /\ Len(Val(lastOp).before.formFiles) = 1
    /\ Val(lastOp).out.fields = <<FALSE, TRUE>>
    /\ Val(lastOp).out.creates = <<TRUE>>
    /\ Val(lastOp).out.writes = <<FALSE>>
    /\ agent.errs = <<ErrWriteField, ErrWriteContent>>
    /\ Len(agent.req.body) = 3

(* C23: while it is built the error list of the Agent only grows at its     *)
(* end: every step leaves the list it found as a prefix of the new one,     *)
(* but for the end of an execution call and reset, which empty it.          *)
C23_ErrsAppendOnly ==
    [][\/ IsPrefix(agent.errs, agent'.errs)
       \/ /\ agent'.errs = <<>>
          /\ pc = "build" \/ pc \in SendNames
          /\ pc' \in {"idle", "returned", "panicked"}]_vars

(* An Agent being built holds the error of a failed Marshal followed by the *)
(* error of a failed read.                                                  *)
C23_Witness ==
    /\ pc = "build"
    /\ call = Nil
    /\ agent.errs = <<ErrMarshal, ErrRead>>

(* The Agent came from Client.Get or Client.Post: only createAgent sets    *)
(* the method of the owned request.                                         *)
FromClient(a) == a.req.method # ""

(* C24: Client.Get and Client.Post return an Agent with the method GET      *)
(* resp. POST, the given URI and the name and user-agent flag of the        *)
(* client; when the scheme of the URI is not supported the error of Parse   *)
(* is the one entry of the error list and nothing is raised.  The execution *)
(* call that finds this error first in the list invokes no send and returns *)
(* it first.                                                                *)
C24_CreateRecordsError ==
    /\ (lastOp # Nil /\ Val(lastOp).op = "createAgent") =>
          LET o == Val(lastOp) IN
          /\ pc = "build"
          /\ agent.req.method = o.method
          /\ o.method \in {MethodGet, MethodPost}
          /\ agent.req.scheme = o.url.scheme
          /\ agent.req.host = o.url.host
          /\ agent.Name = o.c.UserAgent
          /\ agent.NoDefaultUserAgentHeader = o.c.NoDefaultUserAgentHeader
          /\ IF o.url.scheme \in {strHTTP, strHTTPS}
             THEN agent.errs = <<>>
             ELSE /\ agent.errs = <<ErrUnsupportedProtocol(o.url.scheme)>>
                  /\ agent.HostClient = Nil
    /\ (/\ CallEnded
        /\ Val(call).entry.errs # <<>>
        /\ Val(call).entry.errs[1] =
              ErrUnsupportedProtocol(Val(call).entry.req.scheme)) =>
          /\ Sends(Val(call)) = <<>>
          /\ ret # Nil
          /\ Val(ret).errs[1] = Val(call).entry.errs[1]
          /\ Val(ret).code = 0

(* String has returned the error Parse gave for Post("ftp://a") on the      *)
(* client named "ua", without a send.                                       *)
C24_Witness ==
    /\ CallReturned
    /\ Val(call).kind = "String"
    /\ Val(call).entry.req.method = MethodPost
    /\ Val(call).entry.req.scheme = "ftp"
    /\ Val(call).entry.Name = "ua"
    /\ Val(ret).errs = <<ErrUnsupportedProtocol("ftp")>>
    /\ Sends(Val(call)) = <<>>

(* The host ends in ":" and a port number. *)
HasPort(host) ==
    \E i \in 1..(Len(host) - 1) :
        /\ host[i] = ":"
        /\ \A j \in (i + 1)..Len(host) : host[j] \in Digits

(* C25: a Parse that resolves the URI binds a HostClient whose address is   *)
(* the host of the URI, with ":80" (http) or ":443" (https) appended when   *)
(* the host has no port, whose TLS flag is set exactly for https, and whose *)
(* name is the Name of the Agent if not empty, else "fiber", or empty when  *)
(* the NoDefaultUserAgentHeader flag is set.                                *)
C25_BoundTransport ==
    (lastParse # Nil /\ ~Val(lastParse).before.parsed /\ Val(lastParse).err = Nil) =>
        LET b == Val(lastParse).before
            req == EffectiveReq(b)
            https == (Scheme(req) = "https")
        IN
        /\ agent.HostClient # Nil
        /\ Val(agent.HostClient).Addr =
              IF HasPort(req.host) THEN req.host
              ELSE IF https THEN req.host \o <<":", "4", "4", "3">>
              ELSE req.host \o <<":", "8", "0">>
        /\ Val(agent.HostClient).IsTLS = https
        /\ Val(agent.HostClient).Name =
              IF b.Name # "" THEN b.Name
              ELSE IF b.NoDefaultUserAgentHeader THEN ""
              ELSE "fiber"

(* C26: an execution call on an Agent from Client.Get or Client.Post that   *)
(* gets past the fail-fast check has a HostClient to send with.             *)
C26_TransportBound ==
    (call # Nil /\ FromClient(Val(call).entry) /\ Val(call).entry.errs = <<>>) =>
        /\ Val(call).entry.HostClient # Nil
        /\ Count(Val(call).trace, "nil HostClient") = 0

(* C27: a Parse repeated on the Agent Client.Get or Client.Post returned,   *)
(* nothing having been called on it in between, leaves the Agent as it is   *)
(* and returns what the first Parse returned: no error when the URI was     *)
(* resolved, the same error when it was not.                                *)
C27_ParseRepeats ==
    (/\ lastParse # Nil
     /\ Val(lastParse).before.parsed
     /\ FromClient(Val(lastParse).before)
     /\ nops = 1) =>
        LET b == Val(lastParse).before IN
        /\ agent = b
        /\ Val(lastParse).err =
              IF BadScheme(b.req)
              THEN Some(ErrUnsupportedProtocol(Scheme(b.req)))
              ELSE Nil
        /\ (Val(lastParse).err = Nil) = (b.HostClient # Nil)

(* C28: while a send is running on an Agent from Client.Get or Client.Post, *)
(* whatever was called on it since, the HostClient it was invoked on is the *)
(* one Parse builds for the request being sent: its TLS flag is that of the *)
(* scheme of the request and its address the host of the request with the   *)
(* port added as addMissingPort adds it (what it adds is C25's matter).     *)
C28_TransportOfRequest ==
    (pc \in SendNames /\ FromClient(Val(call).entry)) =>
        LET hc == Val(agent.HostClient)
            req == Val(call).req
        IN  /\ hc.IsTLS = (Scheme(req) = strHTTPS)
            /\ hc.Addr = addMissingPort(req.host, hc.IsTLS)

(* What release does on the Agent, as the trace of a call lists it. *)
ReleaseEvents == {"reset", "agentPool.Put", "errs[:0]"}

(* C29: when an execution call has ended, what release did on the Agent is  *)
(* the end of its trace: the sends, the debug write, the status read, the   *)
(* body copy and the response release all come before it; the Agent is as   *)
(* release left the one the call began with, and String and Struct have     *)
(* returned what they made of the values Bytes returned.                    *)
C29_ReleaseLast ==
    CallEnded =>
        LET c == Val(call)
            n == Len(c.trace)
            rel == IF c.released THEN <<"reset", "agentPool.Put">> ELSE <<"errs[:0]">>
        IN
        /\ n >= Len(rel)
        /\ SubSeq(c.trace, n - Len(rel) + 1, n) = rel
        /\ \A i \in 1..(n - Len(rel)) : c.trace[i] \notin ReleaseEvents
        /\ AllBefore(c.trace,
                     SendNames \cup ReadEvents \cup {"printDebugInfo", "AcquireResponse"},
                     ReleaseEvents)
        /\ agent = release(c.entry).agent
        /\ ret # Nil =>
              /\ Val(ret).code = c.code
              /\ Val(ret).body = c.body
              /\ Val(ret).errs \in {c.errs, Append(c.errs, ErrDecode)}

(* A call with a debug writer and its own response has returned after a     *)
(* send and has put the Agent into the pool.                                *)
C29_Witness ==
    /\ CallReturned
    /\ Val(call).released
    /\ Val(call).releaseResp
    /\ Val(call).entry.debugWriter # NilWriter
    /\ Count(Val(call).trace, "Do") = 1
    /\ Count(Val(call).trace, "printDebugInfo") = 1
    /\ Count(Val(call).trace, "ReleaseResponse") = 1
    /\ Val(call).trace[Len(Val(call).trace)] = "agentPool.Put"

=============================================================================
